---- MODULE Spec2Model ----
(***************************************************************************)
(* A model of jstreeview (knhx.js): the node/tree pointer graph, the       *)
(* flattener kn_expand_node, the topology editing functions                *)
(* kn_remove_node, kn_move_node, kn_reroot, kn_multifurcate and            *)
(* kn_reorder, the parser kn_parse, the writer kn_write_nh, the search     *)
(* kn_search_leaf and the user actions of kn_actions with undo.            *)
(*                                                                         *)
(* Nodes are the numbers 1..n in order of creation; 0 is null.  A graph    *)
(* is a record of the per-node fields parent, child and d, each a function *)
(* on 1..n.  Branch lengths are kept in fixed point: the stored integer is *)
(* the JavaScript number multiplied by Unit, so that the halvings done by  *)
(* kn_move_node and kn_reroot are exact; -Unit is the value -1.0 that      *)
(* kn_new_node gives to a node without a length.                           *)
(***************************************************************************)
EXTENDS Integers, Sequences, FiniteSets, TLC

\* number of editing calls made on one tree
MaxOps == 2

\* fixed-point scale of branch lengths: one halving per call stays exact
Unit == 2 ^ MaxOps

\* the value of d set by kn_new_node, -1.0
NoLen == 0 - Unit

\* longest text tried character by character
MaxLen == 4

\* number of calls that change the view only (collapse, search) made on one tree
MaxViews == 3

VARIABLES parent, child, d, hidden, name, weight, n_tips, node, tree_n_tips, hl,
          pre, last, done, clean, nops,
          str, src, tree, out, tree2, pc, str2,
          old_nh, kept, active_node

\* the tree in the editor, with the record of the last call
editor_vars == <<parent, child, d, hidden, name, weight, n_tips, node, tree_n_tips, hl,
                 pre, last, done, clean, nops>>

\* the text area and the trees parsed from it
parser_vars == <<str, src, tree, out, tree2, pc, str2>>

\* what the user actions keep beside the tree: the text held for undo, the
\* node marked for a move (its place in the node sequence, 0 for none), and
\* the tree as the last edit that wrote the text left it
user_vars == <<old_nh, kept, active_node>>

vars == <<parent, child, d, hidden, name, weight, n_tips, node, tree_n_tips, hl,
          pre, last, done, clean, nops,
          str, src, tree, out, tree2, pc, str2,
          old_nh, kept, active_node>>

----------------------------------------------------------------------------
(* JavaScript arrays as sequences *)

\* the element of a set of one element; {e(x) : x \in {v}} is e with x
\* standing for the value of v, worked out once
TheOne(S) == CHOOSE x \in S : TRUE

\* for (i = 0; i < a.length; ++i) if (a[i] == x) break;  -- 1-based, Len+1 when absent
IndexOf(a, x) ==
  IF \E k \in 1..Len(a) : a[k] = x
  THEN CHOOSE k \in 1..Len(a) : a[k] = x /\ \A j \in 1..(k - 1) : a[j] # x
  ELSE Len(a) + 1

\* a[i] = v for 1 <= i <= Len(a) + 1 (an assignment at a.length appends)
SetAt(a, i, v) ==
  IF i = Len(a) + 1 THEN Append(a, v) ELSE [a EXCEPT ![i] = v]

\* for (j = k = 0; j < a.length; ++j) { a[k] = a[j]; if (j != i) ++k; } --a.length;
DropAt(a, i) ==
  IF i > Len(a) THEN SubSeq(a, 1, Len(a) - 1)
  ELSE SubSeq(a, 1, i - 1) \o SubSeq(a, i + 1, Len(a))

----------------------------------------------------------------------------
(* The pointer graph *)

Size(G) == Len(G.parent)

\* kn_new_node: the new node is Size(G) + 1
NewNode(G) ==
  [parent |-> Append(G.parent, 0),
   child  |-> Append(G.child, <<>>),
   d      |-> Append(G.d, NoLen)]

Graph == [parent |-> parent, child |-> child, d |-> d]

\* results of a call: returned normally with a value, or threw
Ret(G, v) == [g |-> G, ret |-> v, st |-> "ret"]
Threw(G)  == [g |-> G, ret |-> 0, st |-> "threw"]

----------------------------------------------------------------------------
(* kn_expand_node *)

RECURSIVE kn_expand_node(_, _, _)
RECURSIVE expand_children(_, _, _)

\* mutant: the children of a hidden node are visited
kn_expand_node_m(ch, hid, n) ==
  IF ch[n] = <<>> THEN <<n>>
  ELSE expand_children(ch, hid, ch[n]) \o <<n>>

kn_expand_node(ch, hid, n) ==
  IF hid[n] \/ ch[n] = <<>> THEN <<n>>
  ELSE expand_children(ch, hid, ch[n]) \o <<n>>

\* mutant: a child that is expanded is not itself put in the sequence
RECURSIVE expand_children_m(_, _, _)
expand_children_m(ch, hid, kids) ==
  IF kids = <<>> THEN <<>>
  ELSE (IF hid[Head(kids)] \/ ch[Head(kids)] = <<>> THEN <<Head(kids)>>
        ELSE expand_children_m(ch, hid, ch[Head(kids)]))
       \o expand_children_m(ch, hid, Tail(kids))

expand_children(ch, hid, kids) ==
  IF kids = <<>> THEN <<>>
  ELSE kn_expand_node(ch, hid, Head(kids)) \o expand_children(ch, hid, Tail(kids))

----------------------------------------------------------------------------
(* kn_remove_node *)

\* q.d += p.d
remove_merge_d(dq, dp) == dq + dp

\* root = z.child[0]; root.parent = null; return root;
unhook(G, z) == Ret([G EXCEPT !.parent[G.child[z][1]] = 0], G.child[z][1])

\* the branch for p.child.length == 2: p is removed, q is its other child
remove_splice(G, z, nd, p) ==
  LET r == G.parent[p]
      q == IF G.child[p][1] = nd THEN G.child[p][2] ELSE G.child[p][1]
  IN IF r = 0
     THEN Threw([G EXCEPT !.d[q] = remove_merge_d(G.d[q], G.d[p]), !.parent[q] = r])
     ELSE unhook([G EXCEPT !.d[q] = remove_merge_d(G.d[q], G.d[p]),
                           !.parent[q] = r,
                           !.child[r] = SetAt(@, IndexOf(@, p), q),
                           !.parent[p] = 0], z)

\* var z = kn_new_node(); z.child.push(root); root.parent = z;
hook(G, root) ==
  [parent |-> Append([G.parent EXCEPT ![root] = Size(G) + 1], 0),
   child  |-> Append(G.child, <<root>>),
   d      |-> Append(G.d, NoLen)]

\* kn_remove_node from "var p = node.parent" on; G has the fake root, its last node;
\* the other branch throws at p.node[k] (or at --p.child.length for an empty array)
remove_hooked(G, nd) ==
  IF G.parent[nd] = 0 THEN Threw(G)
  ELSE IF Len(G.child[G.parent[nd]]) = 2 THEN remove_splice(G, Size(G), nd, G.parent[nd])
  ELSE Threw(G)

kn_remove_node(G, tn, nd) ==
  IF nd = tn[Len(tn)] THEN Ret(G, 0)
  ELSE TheOne({remove_hooked(G1, nd) : G1 \in {hook(G, tn[Len(tn)])}})

----------------------------------------------------------------------------
(* kn_multifurcate *)

\* mutant: the length of p is added without the test for specified lengths
multifurcate_d_m(dc, dp) == dc + dp

\* if (p.child[i].d >= 0 && p.d >= 0) p.child[i].d += p.d;
multifurcate_d(dc, dp) == IF dc >= 0 /\ dp >= 0 THEN dc + dp ELSE dc

\* par.child.length += p.child.length - 1; the new places hold undefined (0)
multifurcate_grow(a, k) == a \o [j \in 1..(k - 1) |-> 0]

\* for (i = 0; i < tmp; ++i) par.child[par.child.length - 1 - i] = par.child[old_length - 1 - i];
RECURSIVE multifurcate_shift(_, _, _, _)
multifurcate_shift(a, old_length, tmp, i) ==
  IF i >= tmp THEN a
  ELSE TheOne({multifurcate_shift(a2, old_length, tmp, i2) :
                 a2 \in {[a EXCEPT ![Len(a) - i] = a[old_length - i]]}, i2 \in {i + 1}})

\* mutant: the promoted children keep their parent reference
RECURSIVE multifurcate_promote_m(_, _, _, _, _)
multifurcate_promote_m(G, p, par, idx, i) ==
  IF i > Len(G.child[p]) THEN G
  ELSE TheOne({multifurcate_promote_m(G2, p, par, idx, i2) :
                 G2 \in {[G EXCEPT !.d[G.child[p][i]] = multifurcate_d(@, G.d[p]),
                                   !.child[par] = SetAt(@, idx + i - 1, G.child[p][i])]},
                 i2 \in {i + 1}})

\* for (i = 0; i < p.child.length; ++i) { ... par.child[i + idx] = p.child[i]; }
\* here i and idx count from 1
RECURSIVE multifurcate_promote(_, _, _, _, _)
multifurcate_promote(G, p, par, idx, i) ==
  IF i > Len(G.child[p]) THEN G
  ELSE TheOne({multifurcate_promote(G2, p, par, idx, i2) :
                 G2 \in {[G EXCEPT !.parent[G.child[p][i]] = par,
                                   !.d[G.child[p][i]] = multifurcate_d(@, G.d[p]),
                                   !.child[par] = SetAt(@, idx + i - 1, G.child[p][i])]},
                 i2 \in {i + 1}})

\* kn_multifurcate from "par = p.parent" on; idx counts from 1
multifurcate_at(G, p, par, idx) ==
  TheOne({multifurcate_promote(G1, p, par, idx, 1) :
            G1 \in {[G EXCEPT !.child[par] =
                       multifurcate_shift(multifurcate_grow(@, Len(G.child[p])),
                                          Len(@), Len(@) - idx, 0)]}})

kn_multifurcate(G, p) ==
  IF G.child[p] = <<>> \/ G.parent[p] = 0 THEN Ret(G, 0)
  ELSE Ret(multifurcate_at(G, p, G.parent[p], IndexOf(G.child[G.parent[p]], p)), 0)

----------------------------------------------------------------------------
(* kn_move_node *)

\* for (var r = q; r.parent; r = r.parent) if (r == p) return null;
RECURSIVE move_blocked(_, _, _)
move_blocked(G, r, p) ==
  IF G.parent[r] = 0 THEN FALSE
  ELSE IF r = p THEN TRUE
  ELSE TheOne({move_blocked(G, r2, p) : r2 \in {G.parent[r]}})

\* mutant: the length is copied, not halved
move_half_d_m(dq) == dq

\* if (q.d >= 0.0) { s.d = q.d / 2.0; q.d /= 2.0; }
move_half_d(dq) == dq \div 2

\* mutant: q keeps its old parent reference
move_splice_m(G, r, i, s, p, q) ==
  [parent |-> [G.parent EXCEPT ![s] = r, ![p] = s],
   child  |-> [G.child EXCEPT ![r] = SetAt(@, i, s), ![s] = <<p, q>>],
   d      |-> IF G.d[q] >= 0
              THEN [G.d EXCEPT ![s] = move_half_d(G.d[q]), ![q] = move_half_d(G.d[q])]
              ELSE G.d]

\* s.parent = r; r.child[i] = s; the halving; s.child.push(p); p.parent = s;
\* s.child.push(q); q.parent = s;  -- s is new, r is q's parent, r.child[i] is q
move_splice(G, r, i, s, p, q) ==
  [parent |-> [G.parent EXCEPT ![s] = r, ![p] = s, ![q] = s],
   child  |-> [G.child EXCEPT ![r] = SetAt(@, i, s), ![s] = <<p, q>>],
   d      |-> IF G.d[q] >= 0
              THEN [G.d EXCEPT ![s] = move_half_d(G.d[q]), ![q] = move_half_d(G.d[q])]
              ELSE G.d]

\* kn_move_node after the second fake root z is in place: G has z and then the
\* new node s as its last two nodes
move_insert(G, p, q) ==
  IF G.parent[q] = 0 THEN Threw(G)
  ELSE unhook(move_splice(G, G.parent[q], IndexOf(G.child[G.parent[q]], q), Size(G), p, q),
              Size(G) - 1)

\* kn_move_node after kn_remove_node returned R; r.child is read (and throws
\* for a q without parent) before the node s is made
move_pruned(R, p, q) ==
  IF R.st = "threw" THEN R
  ELSE TheOne({IF G1.parent[q] = 0 THEN Threw(G1)
               ELSE TheOne({move_insert(G2, p, q) : G2 \in {NewNode(G1)}}) :
                 G1 \in {hook(R.g, R.ret)}})

kn_move_node(G, tn, p, q) ==
  IF p = tn[Len(tn)] THEN Ret(G, 0)
  ELSE IF move_blocked(G, q, p) THEN Ret(G, 0)
  ELSE TheOne({move_pruned(R, p, q) : R \in {kn_remove_node(G, tn, p)}})

----------------------------------------------------------------------------
(* kn_reroot *)

\* mutant: a distance beyond the node's length is taken as given
reroot_dist_m(dist, dn) == IF dist < 0 THEN dn \div 2 ELSE dist

\* if (dist < 0.0 || dist > node.d) dist = node.d / 2.0;
reroot_dist(dist, dn) == IF dist < 0 \/ dist > dn THEN dn \div 2 ELSE dist

\* one turn of the while loop; W holds the graph g and the loop's p, q, r, i
\* (counted from 1) and d
reroot_turn(W) ==
  TheOne({[g |-> [G1 EXCEPT !.parent[W.r] = W.p, !.d[W.r] = W.d],
           p |-> W.r,
           q |-> W.p,
           r |-> W.g.parent[W.r],
           i |-> IndexOf(G1.child[W.r], W.p),
           d |-> W.g.d[W.r]] :
            G1 \in {[W.g EXCEPT !.child[W.p] = SetAt(@, W.i, W.r)]}})

\* while (r != null) { ... }
RECURSIVE reroot_walk(_)
reroot_walk(W) ==
  IF W.r = 0 THEN W
  ELSE TheOne({reroot_walk(W2) : W2 \in {reroot_turn(W)}})

\* mutant: the length of the old root is not added
reroot_merge_d_m(dr, dp) == dr

\* r.d += p.d
reroot_merge_d(dr, dp) == dr + dp

\* the old root p after the rotation; i is the place in p.child of the child on the path
reroot_old_root(G, p, q, i) ==
  IF Len(G.child[p]) = 2 THEN
    IF i > 2 THEN Threw(G)
    ELSE Ret([G EXCEPT !.d[G.child[p][3 - i]] = reroot_merge_d(@, G.d[p]),
                       !.parent[G.child[p][3 - i]] = q,
                       !.child[q] = SetAt(@, IndexOf(@, p), G.child[p][3 - i])], 0)
  ELSE IF Len(G.child[p]) = 0 THEN Threw(G)
  ELSE Ret([G EXCEPT !.child[p] = DropAt(@, i)], 0)

\* kn_reroot from "q = new_root = kn_new_node()" on, with dist settled; G has
\* the new root, its last node
reroot_at(G, nd, dist) ==
  LET nr == Size(G)
      p  == G.parent[nd]
  IN IF p = 0
     THEN Threw([G EXCEPT !.child[nr] = <<nd>>, !.d[nd] = dist, !.parent[nd] = nr])
     ELSE TheOne({TheOne({IF R.st = "threw" THEN R ELSE Ret(R.g, nr) :
                            R \in {reroot_old_root(W.g, W.p, W.q, W.i)}}) :
                    W \in {reroot_walk(
                      [g |-> [parent |-> [G.parent EXCEPT ![nd] = nr, ![p] = nr],
                              child  |-> [G.child EXCEPT ![nr] = <<nd, p>>],
                              d      |-> [G.d EXCEPT ![nd] = dist, ![p] = G.d[nd] - dist]],
                       p |-> p,
                       q |-> nr,
                       r |-> G.parent[p],
                       i |-> IndexOf(G.child[p], nd),
                       d |-> G.d[p]])}})

kn_reroot(G, root, nd, dist) ==
  IF nd = root THEN Ret(G, root)
  ELSE TheOne({reroot_at(G1, nd, reroot_dist(dist, G.d[nd])) : G1 \in {NewNode(G)}})

----------------------------------------------------------------------------
(* kn_count_tips *)

kn_count_tips(ch, hid, tn) ==
  Cardinality({i \in 1..Len(tn) : ch[tn[i]] = <<>> \/ hid[tn[i]]})

----------------------------------------------------------------------------
(* kn_reorder *)

\* the value of a weight or n_tips that is undefined or NaN
NaN == 0 - 1

\* q.depth = q.parent.depth + 1, from node[node.length-1].depth = 0
RECURSIVE reorder_depth(_, _, _)
reorder_depth(G, root, n) ==
  IF n = root THEN 0
  ELSE TheOne({reorder_depth(G, root, m) : m \in {G.parent[n]}}) + 1

\* sort_leaf(a, b) < 0; names are compared as their codes
sort_leaf(da, na, db, nb) == da > db \/ (da = db /\ na < nb)

\* sort_weight(a, b) < 0 for defined weights: a.weight / a.n_tips < b.weight / b.n_tips
sort_weight(wa, ta, wb, tb) == wa * tb < wb * ta

\* Array.prototype.sort with a consistent comparator: the place (from 0) of
\* x[k] in the sorted array; B holds the pairs <<j, k>> for which the
\* comparator puts x[j] before x[k]; elements that compare equal keep their order
SortedPlace(n, k, B) ==
  Cardinality({j \in 1..n : j # k /\ (<<j, k>> \in B \/ (<<k, j>> \notin B /\ j < k))})

Sorted(x, B) ==
  [k \in 1..Len(x) |->
     x[CHOOSE j \in 1..Len(x) : SortedPlace(Len(x), j, B) = k - 1]]

\* the leaves x, pushed for i = node.length - 2 down to 0, then sorted by sort_leaf
reorder_leaves(G, nm, root, nodes) ==
  LET IsLeaf(n) == G.child[n] = <<>>
  IN TheOne({TheOne({TheOne({Sorted(x, B) :
                 B \in {{jk \in (1..Len(x)) \X (1..Len(x)) :
                          sort_leaf(dep[jk[1]], nm[x[jk[1]]], dep[jk[2]], nm[x[jk[2]]])}}}) :
               dep \in {[k \in 1..Len(x) |-> reorder_depth(G, root, x[k])]}}) :
             x \in {SelectSeq([k \in 1..(Len(nodes) - 1) |-> nodes[Len(nodes) - k]], IsLeaf)}})

\* n += q.child[j].n_tips (or w += q.child[j].weight) over the children
RECURSIVE reorder_sum(_, _)
reorder_sum(f, kids) ==
  IF kids = <<>> THEN 0
  ELSE TheOne({IF f[Head(kids)] = NaN \/ rest = NaN THEN NaN ELSE f[Head(kids)] + rest :
                 rest \in {reorder_sum(f, Tail(kids))}})

\* the loop that sets weight and n_tips of the internal nodes, from node[k] on;
\* wt is the record of both fields
RECURSIVE reorder_internal(_, _, _, _)
reorder_internal(G, nodes, k, wt) ==
  IF k > Len(nodes) THEN wt
  ELSE TheOne({reorder_internal(G, nodes, k2, wt2) :
                 k2 \in {k + 1},
                 wt2 \in {IF G.child[nodes[k]] = <<>> THEN wt
                          ELSE [weight |-> [wt.weight EXCEPT ![nodes[k]] =
                                              reorder_sum(wt.weight, G.child[nodes[k]])],
                                n_tips |-> [wt.n_tips EXCEPT ![nodes[k]] =
                                              reorder_sum(wt.n_tips, G.child[nodes[k]])]]}})

\* all orders of a sequence
Orders(x) ==
  {[k \in 1..Len(x) |-> x[f[k]]] :
     f \in {g \in [1..Len(x) -> 1..Len(x)] : \A a, b \in 1..Len(x) : a # b => g[a] # g[b]}}

\* mutant: the sort loses the first child
reorder_sort_m(kids, wt) == {Tail(kids)}

\* the arrays node[i].child.sort(sort_weight) can leave: a comparison with a
\* NaN operand counts as equal, and a comparator that is not consistent leaves
\* the order to the implementation
reorder_sort(kids, wt) ==
  LET W    == [k \in 1..Len(kids) |-> wt.weight[kids[k]]]
      T    == [k \in 1..Len(kids) |-> wt.n_tips[kids[k]]]
      Def  == {k \in 1..Len(kids) : W[k] # NaN}
  IN UNION {IF Def = 1..Len(kids) THEN {Sorted(kids, B)}
            ELSE IF B = {} THEN {kids}
            ELSE Orders(kids) :
              B \in {{jk \in Def \X Def :
                       sort_weight(W[jk[1]], T[jk[1]], W[jk[2]], T[jk[2]])}}}

\* one array per node, each taken among the arrays opts allows for that node
RECURSIVE reorder_children(_, _)
reorder_children(opts, n) ==
  IF n = 0 THEN {<<>>}
  ELSE UNION {{Append(c, o) : c \in reorder_children(opts, m), o \in opts[n]} :
                m \in {n - 1}}

\* for (i = 0; i < node.length; ++i) if (node[i].child.length >= 2) node[i].child.sort(sort_weight);
reorder_swap(G, nodes, wt) ==
  UNION {{[child |-> c, weight |-> wt.weight, n_tips |-> wt.n_tips] :
            c \in reorder_children(opts, Size(G))} :
           opts \in {[n \in 1..Size(G) |->
                       IF (\E k \in 1..Len(nodes) : nodes[k] = n) /\ Len(G.child[n]) >= 2
                       THEN reorder_sort(G.child[n], wt)
                       ELSE {G.child[n]}]}}

\* x[i].weight = i, x[i].n_tips = 1 for the sorted leaves x
reorder_rank(G, x, w, nt) ==
  [weight |-> [n \in 1..Size(G) |->
                 IF \E k \in 1..Len(x) : x[k] = n THEN IndexOf(x, n) - 1 ELSE w[n]],
   n_tips |-> [n \in 1..Size(G) |->
                 IF \E k \in 1..Len(x) : x[k] = n THEN 1 ELSE nt[n]]]

\* the outcomes of kn_reorder(root): child arrays, weight and n_tips
reorder_nodes(G, nm, w, nt, root, nodes) ==
  UNION {reorder_swap(G, nodes, wt) :
           wt \in {reorder_internal(G, nodes, 1, rk) :
                     rk \in {reorder_rank(G, x, w, nt) :
                               x \in {reorder_leaves(G, nm, root, nodes)}}}}

kn_reorder(G, hid, nm, w, nt, root) ==
  UNION {reorder_nodes(G, nm, w, nt, root, nodes) :
           nodes \in {kn_expand_node(G.child, hid, root)}}

----------------------------------------------------------------------------
(* The New Hampshire format parser: kn_add_node and kn_parse *)

\* A text is a sequence of characters; positions count from 0 as in the code.
charAt(s, i) == s[i + 1]
substr(s, b, n) == SubSeq(s, b + 1, b + n)

\* c < '!' || c > '~' : of the characters used here, the blank, the tab and
\* the newline
IsSpace(c) == c \in {" ", "\t", "\n"}

Digits == <<"0", "1", "2", "3", "4", "5", "6", "7", "8", "9">>
IsDigit(c) == \E k \in 1..10 : Digits[k] = c
DigitVal(c) == (CHOOSE k \in 1..10 : Digits[k] = c) - 1

\* the characters the scan after ':' runs over
IsNumChar(c) == IsDigit(c) \/ c \in {"e", "E", "+", "-", "."}

\* Branch lengths are in fixed point here as in the editor.  The value
\* kn_new_node gives d, and the value that stands for NaN (no text used here
\* holds a sign, so no parsed length is negative)
NoD == NoLen
NaNd == NoLen - 1

\* the value of the digits of s from place k on, added to acc
RECURSIVE parse_digits(_, _, _)
parse_digits(s, k, acc) ==
  IF k > Len(s) \/ ~IsDigit(s[k]) THEN acc
  ELSE TheOne({parse_digits(s, k2, a2) : k2 \in {k + 1}, a2 \in {acc * 10 + DigitVal(s[k])}})

\* the first place from k on that holds no digit
RECURSIVE digits_end(_, _)
digits_end(s, k) ==
  IF k > Len(s) \/ ~IsDigit(s[k]) THEN k
  ELSE TheOne({digits_end(s, k2) : k2 \in {k + 1}})

\* parseFloat of a run of number characters, for runs of digits with at most
\* a point and digits after it (no exponent, no sign): the longest prefix
\* that is a number, NaN when it holds no digit.  The fractions met here are
\* multiples of 1/Unit, which the division gives exactly.
parse_point(s, e, f) ==
  IF e = 1 /\ f = e + 1 THEN NaNd
  ELSE parse_digits(s, 1, 0) * Unit
       + (IF f > e + 1 THEN (parse_digits(s, e + 1, 0) * Unit) \div (10 ^ (f - e - 1)) ELSE 0)

parseFloat(s) ==
  TheOne(UNION {{parse_point(s, e, f) :
                   f \in {IF e <= Len(s) /\ s[e] = "." THEN digits_end(s, e + 1) ELSE e + 1}} :
                  e \in {digits_end(s, 1)}})

\* String(v) for a whole number v >= 0
RECURSIVE IntStr(_)
IntStr(v) == IF v < 10 THEN <<Digits[v + 1]>> ELSE IntStr(v \div 10) \o <<Digits[(v % 10) + 1]>>

\* the decimals of the fraction f / Unit, 0 < f < Unit
RECURSIVE FracStr(_)
FracStr(f) ==
  IF f = 0 THEN <<>>
  ELSE <<Digits[((f * 10) \div Unit) + 1]>> \o FracStr((f * 10) % Unit)

\* ":" + p.d for a p.d >= 0: the whole part, and a point and the decimals
\* when p.d is not whole
NumStr(v) ==
  IntStr(v \div Unit) \o (IF v % Unit = 0 THEN <<>> ELSE <<".">> \o FracStr(v % Unit))

\* e |= b for a single bit b
BitOr(e, b) == IF (e \div b) % 2 = 1 THEN e ELSE e + b

\* do ++i; while (i < str.length && str.charAt(i) != ']');  -- called with i already advanced
RECURSIVE scan_meta(_, _)
scan_meta(s, i) ==
  IF i < Len(s) /\ charAt(s, i) # "]" THEN TheOne({scan_meta(s, i2) : i2 \in {i + 1}}) ELSE i

\* for (var j = ++i; i < str.length; ++i) { if (not a number character) break; }
RECURSIVE scan_num(_, _)
scan_num(s, i) ==
  IF i < Len(s) /\ IsNumChar(charAt(s, i)) THEN TheOne({scan_num(s, i2) : i2 \in {i + 1}}) ELSE i

\* the '[' branch of the loop of kn_add_node, with i2 the place the scan stopped
add_meta(s, A, i2) ==
  IF i2 = Len(s)
  THEN [A EXCEPT !.end = IF @ = 0 THEN A.i ELSE @, !.i = i2,
                 !.error = BitOr(@, 4), !.brk = TRUE]
  ELSE [A EXCEPT !.end = IF @ = 0 THEN A.i ELSE @, !.i = i2 + 1,
                 !.meta = substr(s, A.i, i2 - A.i + 1)]

\* the ':' branch, with i2 the place the scan of the number stopped
add_length(s, A, i2) ==
  [A EXCEPT !.end = IF @ = 0 THEN A.i ELSE @, !.i = i2,
            !.d = parseFloat(substr(s, A.i + 1, i2 - (A.i + 1)))]

\* one turn of the loop of kn_add_node and its ++i; the third branch never
\* acts, as no character is both below '!' and above '~'
add_turn(s, A) ==
  IF charAt(s, A.i) = "[" THEN TheOne({add_meta(s, A, i2) : i2 \in {scan_meta(s, A.i + 1)}})
  ELSE IF charAt(s, A.i) = ":" THEN TheOne({add_length(s, A, i2) : i2 \in {scan_num(s, A.i + 1)}})
  ELSE [A EXCEPT !.i = @ + 1]

\* for (i = l, beg = l; i < str.length && str.charAt(i) != ',' && str.charAt(i) != ')'; ++i)
RECURSIVE add_loop(_, _)
add_loop(s, A) ==
  IF A.brk \/ A.i >= Len(s) \/ charAt(s, A.i) \in {",", ")"} THEN A
  ELSE TheOne({add_loop(s, A2) : A2 \in {add_turn(s, A)}})

\* if (end == 0) end = i; if (end > beg) z.name = ...; tree.node.push(z); return i;
add_push(s, beg, T, A) ==
  [t |-> [T EXCEPT !.parent = Append(@, 0),
                   !.child = Append(@, <<>>),
                   !.name = Append(@, IF (IF A.end = 0 THEN A.i ELSE A.end) > beg
                                      THEN substr(s, beg, (IF A.end = 0 THEN A.i ELSE A.end) - beg)
                                      ELSE <<>>),
                   !.meta = Append(@, A.meta),
                   !.d = Append(@, A.d),
                   !.error = A.error],
   i |-> A.i]

\* the tree with the new node, and the place the scan stopped
kn_add_node(s, l, T, x) ==
  TheOne({add_push(s, l, T, A) :
            A \in {add_loop(s, [i |-> l, end |-> 0, meta |-> <<>>, d |-> NoD,
                                error |-> T.error, brk |-> FALSE])}})

\* while (l < str.length && (str.charAt(l) < '!' || str.charAt(l) > '~')) ++l;
RECURSIVE skip_space(_, _)
skip_space(s, l) ==
  IF l < Len(s) /\ IsSpace(charAt(s, l)) THEN TheOne({skip_space(s, l2) : l2 \in {l + 1}}) ELSE l

\* the place in the stack (from 1) of the last marker -1, 0 if there is none
last_marker(stack) ==
  IF \E k \in 1..Len(stack) : stack[k] < 0
  THEN CHOOSE k \in 1..Len(stack) : stack[k] < 0 /\ \A j \in (k + 1)..Len(stack) : stack[j] >= 0
  ELSE 0

\* mutant: the children are linked in the order they leave the stack
parse_link_m(T, stack, mk, x) ==
  [T EXCEPT !.child[x] = [k \in 1..(Len(stack) - mk) |-> stack[Len(stack) + 1 - k] + 1],
            !.parent = [n \in 1..Len(@) |->
                          IF \E k \in (mk + 1)..Len(stack) : stack[k] + 1 = n THEN x ELSE @[n]]]

\* tree.node[x].child[m] = tree.node[stack[i]]; tree.node[stack[i]].parent = tree.node[x];
\* for the entries above the marker at place mk; x is the node kn_add_node pushed
parse_link(T, stack, mk, x) ==
  [T EXCEPT !.child[x] = [k \in 1..(Len(stack) - mk) |-> stack[mk + k] + 1],
            !.parent = [n \in 1..Len(@) |->
                          IF \E k \in (mk + 1)..Len(stack) : stack[k] + 1 = n THEN x ELSE @[n]]]

\* the ')' branch of kn_parse, with l at the ')'
parse_close(s, P, l) ==
  IF last_marker(P.stack) = 0
  THEN [P EXCEPT !.l = l, !.t.error = BitOr(@, 1), !.brk = TRUE]
  ELSE TheOne({[P EXCEPT !.l = R.i,
                         !.t = parse_link(R.t, P.stack, last_marker(P.stack), Len(R.t.parent)),
                         !.stack = Append(SubSeq(@, 1, last_marker(@) - 1), Len(P.t.parent))] :
                 R \in {kn_add_node(s, l + 1, P.t, Len(P.stack) - last_marker(P.stack))}})

\* the branch of kn_parse for a leaf, with l at its first character
parse_leaf(s, P, l) ==
  TheOne({[P EXCEPT !.l = R.i, !.t = R.t, !.stack = Append(@, Len(P.t.parent))] :
            R \in {kn_add_node(s, l, [P.t EXCEPT !.n_tips = @ + 1], 0)}})

\* one turn of the loop of kn_parse, with l past the white space
parse_turn(s, P, l) ==
  IF l = Len(s) THEN [P EXCEPT !.l = l, !.brk = TRUE]
  ELSE IF charAt(s, l) = "," THEN [P EXCEPT !.l = l + 1]
  ELSE IF charAt(s, l) = "(" THEN [P EXCEPT !.l = l + 1, !.stack = Append(@, 0 - 1)]
  ELSE IF charAt(s, l) = ")" THEN parse_close(s, P, l)
  ELSE parse_leaf(s, P, l)

\* for (var l = 0; l < str.length;) { ... }
RECURSIVE parse_loop(_, _)
parse_loop(s, P) ==
  IF P.brk \/ P.l >= Len(s) THEN P
  ELSE TheOne({parse_loop(s, P2) :
                 P2 \in {parse_turn(s, P, l) : l \in {skip_space(s, P.l)}}})

\* a tree without nodes: tree.error = tree.n_tips = 0; tree.node = new Array();
NewTree ==
  [parent |-> <<>>, child |-> <<>>, name |-> <<>>, meta |-> <<>>, d |-> <<>>,
   error |-> 0, n_tips |-> 0, root |-> 0]

\* if (stack.length > 1) tree.error |= 2; tree.root = tree.node[tree.node.length - 1];
\* the nodes are numbered as they are pushed to tree.node; root 0 is undefined
parse_end(P) ==
  [P.t EXCEPT !.error = IF Len(P.stack) > 1 THEN BitOr(@, 2) ELSE @,
              !.root = Len(P.t.parent)]

kn_parse(s) ==
  TheOne({parse_end(P) :
            P \in {parse_loop(s, [l |-> 0, stack |-> <<>>, t |-> NewTree, brk |-> FALSE])}})

----------------------------------------------------------------------------
(* kn_write_nh *)

\* p.depth = p.parent.depth + 1, for a node whose ancestors are in the tree
RECURSIVE write_depth(_, _)
write_depth(T, n) ==
  IF T.parent[n] = 0 THEN 0
  ELSE TheOne({write_depth(T, m) : m \in {T.parent[n]}}) + 1

\* the brackets and separators written before node p
write_open(first, n_bra) ==
  IF n_bra > 0
  THEN (IF first THEN <<>> ELSE <<",", "\n">>) \o [j \in 1..n_bra |-> "("]
  ELSE IF n_bra < 0 THEN <<"\n", ")">>
  ELSE <<",", "\n">>

\* mutant: the metadata is not written
write_token_m(T, p) ==
  T.name[p] \o (IF T.d[p] >= 0 THEN <<":">> \o NumStr(T.d[p]) ELSE <<>>)

\* if (p.name) ...; if (p.d >= 0.0) str += ":" + p.d; if (p.meta) ...
write_token(T, p) ==
  T.name[p] \o (IF T.d[p] >= 0 THEN <<":">> \o NumStr(T.d[p]) ELSE <<>>) \o T.meta[p]

\* the loop that generates the string, from node i on; W holds str,
\* cur_depth and is_first
RECURSIVE write_loop(_, _, _)
write_loop(T, i, W) ==
  IF i > Len(T.parent) THEN W.str
  ELSE TheOne({write_loop(T, i2, W2) :
                 i2 \in {i + 1},
                 W2 \in {[str |-> W.str \o write_open(W.first, dep - W.cur) \o write_token(T, i),
                          cur |-> dep,
                          first |-> W.first /\ dep - W.cur <= 0] :
                           dep \in {write_depth(T, i)}}})

\* the text, or the TypeError of the depth pass for a tree without nodes
\* or with a node before the last that has no parent
kn_write_nh(T) ==
  IF Len(T.parent) = 0 \/ \E n \in 1..(Len(T.parent) - 1) : T.parent[n] = 0
  THEN [st |-> "threw", str |-> <<>>]
  ELSE [st |-> "ret",
        str |-> write_loop(T, 1, [str |-> <<>>, cur |-> 0, first |-> TRUE]) \o <<"\n">>]

----------------------------------------------------------------------------
(* Trees the parser returns *)

\* a parsed tree: children lists in the finishing order, lengths in units, names
Parsed(ch, len, nm) ==
  [parent |-> [n \in 1..Len(ch) |->
                 IF \E m \in 1..Len(ch) : \E k \in 1..Len(ch[m]) : ch[m][k] = n
                 THEN CHOOSE m \in 1..Len(ch) : \E k \in 1..Len(ch[m]) : ch[m][k] = n
                 ELSE 0],
   child  |-> ch,
   d      |-> [n \in 1..Len(ch) |-> IF len[n] < 0 THEN NoLen ELSE len[n] * Unit],
   name   |-> nm]

ParsedTrees ==
  { \* ((A:1,B:2):1,C:3)
    Parsed(<< <<>>, <<>>, <<1, 2>>, <<>>, <<3, 4>> >>, <<1, 2, 1, 3, -1>>, <<1, 2, 0, 3, 0>>),
    \* (A:1,B:2)
    Parsed(<< <<>>, <<>>, <<1, 2>> >>, <<1, 2, -1>>, <<1, 2, 0>>),
    \* (B:1,(A:1,C):2,D:2)
    Parsed(<< <<>>, <<>>, <<>>, <<2, 3>>, <<>>, <<1, 4, 5>> >>,
           <<1, 1, -1, 2, 2, -1>>, <<2, 1, 3, 0, 4, 0>>),
    \* (C,(A,B:1):2)
    Parsed(<< <<>>, <<>>, <<>>, <<2, 3>>, <<1, 4>> >>, <<-1, -1, 1, 2, -1>>, <<3, 1, 2, 0, 0>>),
    \* ((A:1):1,B:2)
    Parsed(<< <<>>, <<1>>, <<>>, <<2, 3>> >>, <<1, 1, 2, -1>>, <<1, 0, 2, 0>>),
    \* (((A:1,B:2):1,C:1),D:2):1
    Parsed(<< <<>>, <<>>, <<1, 2>>, <<>>, <<3, 4>>, <<>>, <<5, 6>> >>,
           <<1, 2, 1, 1, -1, 2, 1>>, <<1, 2, 0, 3, 0, 4, 0>>)
  }

NoCall == [op |-> "none", a |-> 0, b |-> 0, dist |-> 0, st |-> "ret", ret |-> 0]

Snapshot ==
  [parent |-> parent, child |-> child, d |-> d, hidden |-> hidden, node |-> node,
   hl |-> hl, tips |-> tree_n_tips, name |-> name]

\* no shape: the text was not written from a shape
NoShape == [ch |-> <<>>, tok |-> <<>>]

\* the text area is not in use
ParserIdle ==
  /\ str = <<>>
  /\ src = NoShape
  /\ tree = NewTree
  /\ out = [st |-> "ret", str |-> <<>>]
  /\ tree2 = NewTree
  /\ pc = "edit"
  /\ str2 = <<>>

\* no edit has written the text
NoKept == [parent |-> <<>>, child |-> <<>>, d |-> <<>>, root |-> 0]

\* conf.old_nh = null, no node marked for a move
UserIdle ==
  /\ old_nh = <<>>
  /\ kept = NoKept
  /\ active_node = 0

\* the editor holds the parsed tree t
InitTree(t) ==
    /\ parent = t.parent
    /\ child = t.child
    /\ d = t.d
    /\ name = t.name
    /\ hidden = [n \in 1..Len(t.child) |-> FALSE]
    /\ weight = [n \in 1..Len(t.child) |-> -1]
    /\ n_tips = [n \in 1..Len(t.child) |-> -1]
    /\ node = [n \in 1..Len(t.child) |-> n]
    /\ tree_n_tips = Cardinality({n \in 1..Len(t.child) : t.child[n] = <<>>})
    /\ hl = [n \in 1..Len(t.child) |-> FALSE]
    /\ pre = [parent |-> t.parent, child |-> t.child, d |-> t.d,
              hidden |-> [n \in 1..Len(t.child) |-> FALSE],
              node |-> [n \in 1..Len(t.child) |-> n],
              hl |-> [n \in 1..Len(t.child) |-> FALSE],
              tips |-> Cardinality({n \in 1..Len(t.child) : t.child[n] = <<>>}),
              name |-> t.name]
    /\ last = NoCall
    /\ done = {}
    /\ clean = TRUE
    /\ nops = 0

Init == \E t \in ParsedTrees : InitTree(t) /\ ParserIdle /\ UserIdle

----------------------------------------------------------------------------
(* Calls *)

\* the fields of the nodes created by a call, as kn_new_node sets them
Grown(f, G, v) == [n \in 1..Size(G) |-> IF n <= Len(f) THEN f[n] ELSE v]

\* the editor takes a call: no call has thrown, and the bound on calls is not reached
Ready == clean /\ nops < MaxOps

\* a call that returned R, followed by the flatten the caller owes when the
\* call returned a root
FinishTree(op, a, b, dist, R, newroot) ==
  /\ parent' = R.g.parent
  /\ child' = R.g.child
  /\ d' = R.g.d
  /\ hidden' = Grown(hidden, R.g, FALSE)
  /\ name' = Grown(name, R.g, 0)
  /\ weight' = Grown(weight, R.g, -1)
  /\ n_tips' = Grown(n_tips, R.g, -1)
  /\ node' = IF R.st = "ret" /\ newroot # 0
             THEN kn_expand_node(R.g.child, hidden', newroot)
             ELSE node
  /\ tree_n_tips' = IF op = "prune" /\ R.st = "ret" /\ newroot # 0
                    THEN kn_count_tips(R.g.child, hidden', node')
                    ELSE tree_n_tips
  /\ hl' = Grown(hl, R.g, FALSE)
  /\ pre' = Snapshot
  /\ last' = [op |-> op, a |-> a, b |-> b, dist |-> dist, st |-> R.st, ret |-> R.ret]
  /\ done' = IF R.st = "ret" /\ R.g # Graph THEN done \cup {op} ELSE done
  /\ clean' = (clean /\ R.st = "ret")
  /\ nops' = nops + 1

Finish(op, a, b, dist, R, newroot) ==
  /\ FinishTree(op, a, b, dist, R, newroot)
  /\ UNCHANGED parser_vars
  /\ UNCHANGED user_vars

Prune ==
  /\ Ready
  /\ \E i \in 1..Len(node) :
       \E R \in {kn_remove_node(Graph, node, node[i])} :
         Finish("prune", node[i], 0, 0, R, R.ret)

Multifurcate ==
  /\ Ready
  /\ \E i \in 1..Len(node) :
       \E R \in {kn_multifurcate(Graph, node[i])} :
         Finish("multifurcate", node[i], 0, 0, R, node[Len(node)])

Regraft ==
  /\ Ready
  /\ \E i \in 1..Len(node), j \in 1..Len(node) :
       \E R \in {kn_move_node(Graph, node, node[i], node[j])} :
         Finish("regraft", node[i], node[j], 0, R, R.ret)

\* distances the caller passes: -1.0 (the editor's own call), 0.0 and 1.0
Dists == {NoLen, 0, Unit}

Reroot ==
  /\ Ready
  /\ \E i \in 1..Len(node), dist \in Dists :
       \E R \in {kn_reroot(Graph, node[Len(node)], node[i], dist)} :
         Finish("reroot", node[i], 0, dist, R, R.ret)

\* kn_reorder on the node at place i, followed by the flatten
ReorderAt(i) ==
  /\ \E o \in kn_reorder(Graph, hidden, name, weight, n_tips, node[i]) :
         /\ child' = o.child
         /\ weight' = o.weight
         /\ n_tips' = o.n_tips
         /\ node' = kn_expand_node(o.child, hidden, node[Len(node)])
         /\ last' = [op |-> "reorder", a |-> node[i], b |-> 0, dist |-> 0, st |-> "ret", ret |-> 0]
  /\ pre' = Snapshot
  /\ done' = done \cup {"reorder"}
  /\ nops' = nops + 1
  /\ UNCHANGED <<parent, d, hidden, name, tree_n_tips, hl, clean>>

Reorder ==
  /\ Ready
  /\ \E i \in 1..Len(node) : ReorderAt(i)
  /\ UNCHANGED parser_vars
  /\ UNCHANGED user_vars

\* mutant: the flag is set, never cleared
collapse_hidden_m(hid, n) == [hid EXCEPT ![n] = TRUE]

\* tree.node[i].hidden = !tree.node[i].hidden;
collapse_hidden(hid, n) == [hid EXCEPT ![n] = ~@]

\* kn_actions.collapse on the node at place i
CollapseCall ==
  /\ \E i \in 1..Len(node) :
       /\ child[node[i]] # <<>>
       /\ hidden' = collapse_hidden(hidden, node[i])
       /\ node' = kn_expand_node(child, hidden', node[Len(node)])
       /\ tree_n_tips' = kn_count_tips(child, hidden', node')
       /\ last' = [op |-> "collapse", a |-> node[i], b |-> 0, dist |-> 0, st |-> "ret", ret |-> 0]
  /\ pre' = Snapshot
  /\ done' = done \cup {"collapse"}
  /\ nops' = nops + 1
  /\ UNCHANGED <<parent, child, d, name, weight, n_tips, hl, clean>>
  /\ UNCHANGED parser_vars
  /\ UNCHANGED user_vars

Collapse == Ready /\ CollapseCall

\* the patterns searched for, each as the set of the names it matches; the
\* first is the empty or absent pattern, for which re stays null
Patterns == << {}, {1}, {2, 3} >>

\* re != null && re.test(p.name)
search_test(pattern, nm) == nm \in Patterns[pattern]

\* kn_search_leaf: the flags hl after the loop over tree.node
kn_search_leaf(hlv, ch, nm, tn, pattern) ==
  [n \in 1..Len(hlv) |->
     IF (\E i \in 1..Len(tn) : tn[i] = n) /\ ch[n] = <<>>
     THEN search_test(pattern, nm[n])
     ELSE hlv[n]]

\* a call that changes the view only is taken
ViewReady == clean /\ nops < MaxViews

\* the search button: kn_search_leaf(kn_g_tree, pattern)
Search ==
  /\ ViewReady
  /\ \E pattern \in 1..Len(Patterns) :
       /\ hl' = kn_search_leaf(hl, child, name, node, pattern)
       /\ last' = [op |-> "search", a |-> pattern, b |-> 0, dist |-> 0, st |-> "ret", ret |-> 0]
  /\ pre' = Snapshot
  /\ done' = done \cup {"search"}
  /\ nops' = nops + 1
  /\ UNCHANGED <<parent, child, d, hidden, name, weight, n_tips, node, tree_n_tips, clean>>
  /\ UNCHANGED parser_vars
  /\ UNCHANGED user_vars

ViewCollapse == ViewReady /\ CollapseCall

NextView == Search \/ ViewCollapse

\* searches and collapses on a parsed tree
ViewSpec == Init /\ [][NextView]_vars

Next == Prune \/ Regraft \/ Reroot \/ Multifurcate \/ Reorder \/ Collapse

Spec == Init /\ [][Next]_vars

----------------------------------------------------------------------------
(* The user actions kn_actions, with the text area and undo *)

\* the names of the nodes of the trees edited, by their numbers
Letters == <<"A", "B", "C", "D">>
NameText(n) == IF n = 0 THEN <<>> ELSE <<Letters[n]>>

\* the number of a name read from a text; names that are no letter (a
\* letter followed by a newline, say) share the number after the letters
NameId(t) ==
  IF t = <<>> THEN 0
  ELSE IF \E k \in 1..Len(Letters) : t = <<Letters[k]>>
       THEN CHOOSE k \in 1..Len(Letters) : t = <<Letters[k]>>
       ELSE Len(Letters) + 1

\* the tree as kn_write_nh reads it: the nodes of the sequence tn by their
\* places in it, a parent outside the sequence as 0
TreeOf(par, dd, nm, tn) ==
  [parent |-> [i \in 1..Len(tn) |->
                 IF par[tn[i]] = 0 \/ IndexOf(tn, par[tn[i]]) > Len(tn) THEN 0
                 ELSE IndexOf(tn, par[tn[i]])],
   name   |-> [i \in 1..Len(tn) |-> NameText(nm[tn[i]])],
   d      |-> [i \in 1..Len(tn) |-> dd[tn[i]]],
   meta   |-> [i \in 1..Len(tn) |-> <<>>]]

\* set_undo(conf, kn_write_nh(tree)) at the end of an edit that got as far
\* (ok), with the tree the edit leaves; the other parts of the text area stay
SetUndo(ok) ==
  /\ IF ok
     THEN \E W \in {kn_write_nh(TreeOf(parent', d', name', node'))} :
            /\ old_nh' = str
            /\ str' = W.str
            /\ kept' = [parent |-> parent', child |-> child', d |-> d',
                        root |-> node'[Len(node')]]
     ELSE UNCHANGED <<old_nh, str, kept>>
  /\ UNCHANGED <<src, tree, out, tree2, pc, str2>>

\* the user edits a tree that was drawn: one of the parsed trees, with its
\* text in the text area
InitUser ==
  /\ \E t \in ParsedTrees :
       /\ InitTree(t)
       /\ str = kn_write_nh(TreeOf(t.parent, t.d, t.name, [n \in 1..Len(t.child) |-> n])).str
  /\ src = NoShape
  /\ tree = NewTree
  /\ out = [st |-> "ret", str |-> <<>>]
  /\ tree2 = NewTree
  /\ pc = "edit"
  /\ str2 = <<>>
  /\ UserIdle

\* an edit is taken: the tree on show is the tree edited, not one read back
\* by undo
UserReady == pc = "edit" /\ Ready

\* kn_actions.swap: the first child of the node at place i goes last
kn_actions_swap ==
  /\ UserReady
  /\ \E i \in 1..Len(node) :
       /\ child[node[i]] # <<>>
       /\ \E R \in {Ret([Graph EXCEPT !.child[node[i]] = Tail(@) \o <<Head(@)>>], 0)} :
            FinishTree("swap", node[i], 0, 0, R, node[Len(node)])
  /\ SetUndo(TRUE)
  /\ UNCHANGED active_node

\* kn_actions.sort
kn_actions_sort ==
  /\ UserReady
  /\ \E i \in 1..Len(node) :
       /\ child[node[i]] # <<>>
       /\ ReorderAt(i)
  /\ SetUndo(TRUE)
  /\ UNCHANGED active_node

\* kn_actions.reroot: kn_reroot(root, tree.node[i], -1.0)
kn_actions_reroot ==
  /\ UserReady
  /\ \E i \in 1..Len(node) :
       \E R \in {kn_reroot(Graph, node[Len(node)], node[i], NoLen)} :
         /\ FinishTree("reroot", node[i], 0, NoLen, R, R.ret)
         /\ SetUndo(R.st = "ret")
  /\ UNCHANGED active_node

\* kn_actions.collapse
kn_actions_collapse == UserReady /\ CollapseCall

\* kn_actions.remove; with the root chosen kn_remove_node returns nothing and
\* the flatten fails before anything is written
kn_actions_remove ==
  /\ UserReady
  /\ \E i \in 1..Len(node) :
       \E R \in {kn_remove_node(Graph, node, node[i])} :
         /\ FinishTree("prune", node[i], 0, 0, R, R.ret)
         /\ SetUndo(R.st = "ret" /\ R.ret # 0)
  /\ UNCHANGED active_node

\* kn_actions.multifurcate
kn_actions_multifurcate ==
  /\ UserReady
  /\ \E i \in 1..Len(node) :
       /\ child[node[i]] # <<>>
       /\ \E R \in {kn_multifurcate(Graph, node[i])} :
            /\ FinishTree("multifurcate", node[i], 0, 0, R, node[Len(node)])
            /\ SetUndo(R.st = "ret")
  /\ UNCHANGED active_node

\* kn_actions.move on the node at place i: with no node marked the node is
\* marked; with a node marked that node is moved to the node at place i and
\* the mark is cleared (a move to the parent is refused)
kn_actions_move ==
  /\ UserReady
  /\ \E i \in 1..Len(node) :
       IF active_node # 0 /\ active_node <= Len(node)
       THEN IF parent[node[active_node]] = node[i]
            THEN /\ active_node' = 0
                 /\ UNCHANGED editor_vars
                 /\ UNCHANGED parser_vars
                 /\ UNCHANGED <<old_nh, kept>>
            ELSE \E R \in {kn_move_node(Graph, node, node[active_node], node[i])} :
                   /\ FinishTree("regraft", node[active_node], node[i], 0, R, R.ret)
                   /\ SetUndo(R.st = "ret" /\ R.ret # 0)
                   /\ active_node' = IF R.st = "ret" THEN 0 ELSE active_node
       ELSE /\ active_node' = i
            /\ UNCHANGED editor_vars
            /\ UNCHANGED parser_vars
            /\ UNCHANGED <<old_nh, kept>>

\* the edits that write the text
Tracked == {"swap", "reorder", "reroot", "prune", "multifurcate", "regraft"}

\* the last call was an edit that wrote the text
Wrote ==
  /\ last.op \in Tracked
  /\ last.st = "ret"
  /\ last.op \in {"prune", "regraft"} => last.ret # 0

\* kn_g_tree = kn_parse(textarea.value): the tree T takes the place of the
\* tree edited; a text without a node gives a tree without root, on which
\* the layout fails
Load(T) ==
  /\ parent' = T.parent
  /\ child' = T.child
  /\ d' = T.d
  /\ name' = [n \in 1..Len(T.parent) |-> NameId(T.name[n])]
  /\ hidden' = [n \in 1..Len(T.parent) |-> FALSE]
  /\ weight' = [n \in 1..Len(T.parent) |-> -1]
  /\ n_tips' = [n \in 1..Len(T.parent) |-> -1]
  /\ node' = [n \in 1..Len(T.parent) |-> n]
  /\ tree_n_tips' = T.n_tips
  /\ hl' = [n \in 1..Len(T.parent) |-> FALSE]
  /\ clean' = (Len(T.parent) > 0)
  /\ last' = [op |-> "undo_redo", a |-> 0, b |-> 0, dist |-> 0,
              st |-> IF Len(T.parent) > 0 THEN "ret" ELSE "threw", ret |-> 0]

\* kn_actions.undo_redo, tried after an edit that wrote the text and once
\* more after that
kn_actions_undo_redo ==
  /\ clean
  /\ \/ pc = "edit" /\ Wrote
     \/ pc = "undone"
  /\ old_nh' = str
  /\ str' = old_nh
  /\ \E T \in {kn_parse(old_nh)} :
       /\ tree' = T
       /\ Load(T)
  /\ pc' = IF pc = "edit" THEN "undone" ELSE "redone"
  /\ pre' = Snapshot
  /\ done' = done \cup {"undo_redo"}
  /\ active_node' = 0
  /\ UNCHANGED <<nops, kept, src, out, tree2, str2>>

NextUser ==
  \/ kn_actions_swap
  \/ kn_actions_sort
  \/ kn_actions_reroot
  \/ kn_actions_collapse
  \/ kn_actions_remove
  \/ kn_actions_multifurcate
  \/ kn_actions_move
  \/ kn_actions_undo_redo

UserSpec == InitUser /\ [][NextUser]_vars

----------------------------------------------------------------------------
(* The text area: texts are parsed, written back and parsed again *)

\* the characters of the texts tried character by character
Alphabet == {"(", ")", ",", "A", ":", "1", "[", "]"}

RawTexts == UNION {[1..k -> Alphabet] : k \in 0..MaxLen}

\* the scenarios of the specification, and texts with two faults
Examples ==
  { <<"(", "A", ":", "1", ",", "B", ":", "2", ")", ";">>,
    <<"(", "A", ",", "(", "B", ",", "C", ")", ";">>,
    <<"(", "A", ",", "B", ")", ")">>,
    <<"(", "(", "A", ":", "1", ",", "B", ":", "2", ")", ":", "1", ",", "C", ":", "3", ")", ";">>,
    <<"(", "A", ",", "B", ")", ")", "[", "x">>,
    <<"(", "(", "A", "[", "x">> }

\* what a node of a well-formed text carries: name, branch length (NoD for
\* none) and metadata
Token(nm, len, mt) == [name |-> nm, d |-> len, meta |-> mt]
NoToken == Token(<<>>, NoD, <<>>)
Tokens ==
  { Token(<<"A">>, NoD, <<>>),
    Token(<<"B">>, Unit, <<>>),
    Token(<<"C">>, 20 * Unit, <<"[", "x", "]">>),
    Token(<<>>, 0, <<"[", "y", "]">>) }

\* shapes: the children of each node, the nodes numbered in finishing order
Shapes ==
  { << <<>> >>,
    << <<>>, <<>>, <<1, 2>> >>,
    << <<>>, <<>>, <<>>, <<1, 2, 3>> >>,
    << <<>>, <<>>, <<1, 2>>, <<>>, <<3, 4>> >>,
    << <<>>, <<>>, <<>>, <<2, 3>>, <<1, 4>> >>,
    << <<>>, <<1>>, <<>>, <<2, 3>> >> }

\* a shape with a token on every node; a leaf has a token that is not empty
Labelled ==
  UNION {{[ch |-> ch, tok |-> tok] :
            tok \in {f \in [1..Len(ch) -> Tokens \cup {NoToken}] :
                       \A n \in 1..Len(ch) : ch[n] = <<>> => f[n] # NoToken}} :
           ch \in Shapes}

TokenText(t) ==
  t.name \o (IF t.d >= 0 THEN <<":">> \o NumStr(t.d) ELSE <<>>) \o t.meta

\* the text of the subtree under n: a leaf token, or the members of a group
\* between brackets, separated by sep, followed by the token of the group
RECURSIVE Render(_, _, _)
RECURSIVE RenderMembers(_, _, _)
Render(sh, n, sep) ==
  IF sh.ch[n] = <<>> THEN TokenText(sh.tok[n])
  ELSE <<"(">> \o RenderMembers(sh, sh.ch[n], sep) \o <<")">> \o TokenText(sh.tok[n])

RenderMembers(sh, kids, sep) ==
  IF Len(kids) = 1 THEN Render(sh, kids[1], sep)
  ELSE Render(sh, kids[1], sep) \o sep \o RenderMembers(sh, Tail(kids), sep)

Separators == { <<",">>, <<",", " ">> }
Terminators == { <<>>, <<";">> }

InitText ==
  /\ \/ /\ str \in RawTexts \cup Examples
        /\ src = NoShape
     \/ \E sh \in Labelled, sep \in Separators, term \in Terminators :
          /\ str = Render(sh, Len(sh.ch), sep) \o term
          /\ src = sh
  /\ tree = NewTree
  /\ out = [st |-> "ret", str |-> <<>>]
  /\ tree2 = NewTree
  /\ pc = "text"
  /\ str2 = <<>>
  /\ parent = <<>>
  /\ child = <<>>
  /\ d = <<>>
  /\ hidden = <<>>
  /\ name = <<>>
  /\ weight = <<>>
  /\ n_tips = <<>>
  /\ node = <<>>
  /\ tree_n_tips = 0
  /\ hl = <<>>
  /\ pre = [parent |-> <<>>, child |-> <<>>, d |-> <<>>, hidden |-> <<>>, node |-> <<>>,
            hl |-> <<>>, tips |-> 0, name |-> <<>>]
  /\ last = NoCall
  /\ done = {}
  /\ clean = TRUE
  /\ nops = 0
  /\ UserIdle

\* kn_actions.plot: the text is parsed
Parse ==
  /\ pc = "text"
  /\ tree' = kn_parse(str)
  /\ pc' = "parsed"
  /\ UNCHANGED <<str, src, out, tree2, str2>>
  /\ UNCHANGED editor_vars
  /\ UNCHANGED user_vars

\* set_undo(conf, kn_write_nh(tree)): the tree is written to the text area
Write ==
  /\ pc = "parsed"
  /\ out' = kn_write_nh(tree)
  /\ pc' = "written"
  /\ UNCHANGED <<str, src, tree, tree2, str2>>
  /\ UNCHANGED editor_vars
  /\ UNCHANGED user_vars

\* kn_actions.undo_redo: the text that was written is parsed
Reparse ==
  /\ pc = "written"
  /\ out.st = "ret"
  /\ tree2' = kn_parse(out.str)
  /\ pc' = "reparsed"
  /\ UNCHANGED <<str, src, tree, out, str2>>
  /\ UNCHANGED editor_vars
  /\ UNCHANGED user_vars

NextText == Parse \/ Write \/ Reparse

TextSpec == InitText /\ [][NextText]_vars

----------------------------------------------------------------------------
(* A text and the same text with one white space character more *)

Whitespace == {" ", "\t", "\n"}

\* the place after the first p characters of s lies in a metadata block: a
\* '[' at or before it is not yet followed by its ']'
InMeta(s, p) == \E k \in 1..p : s[k] = "[" /\ \A j \in (k + 1)..p : s[j] # "]"

\* s with c put after its first p characters
Insert(s, p, c) == SubSeq(s, 1, p) \o <<c>> \o SubSeq(s, p + 1, Len(s))

\* well-formed texts of one node and of a group of two, and the scenarios
SpaceTexts ==
  Examples \cup
  {Render(sh, Len(sh.ch), <<",">>) \o <<";">> : sh \in {l \in Labelled : Len(l.ch) <= 3}}

InitSpace ==
  /\ str \in SpaceTexts
  /\ \E p \in 0..Len(str), c \in Whitespace :
       /\ ~InMeta(str, p)
       /\ str2 = Insert(str, p, c)
  /\ src = NoShape
  /\ tree = NewTree
  /\ out = [st |-> "ret", str |-> <<>>]
  /\ tree2 = NewTree
  /\ pc = "text"
  /\ parent = <<>>
  /\ child = <<>>
  /\ d = <<>>
  /\ hidden = <<>>
  /\ name = <<>>
  /\ weight = <<>>
  /\ n_tips = <<>>
  /\ node = <<>>
  /\ tree_n_tips = 0
  /\ hl = <<>>
  /\ pre = [parent |-> <<>>, child |-> <<>>, d |-> <<>>, hidden |-> <<>>, node |-> <<>>,
            hl |-> <<>>, tips |-> 0, name |-> <<>>]
  /\ last = NoCall
  /\ done = {}
  /\ clean = TRUE
  /\ nops = 0
  /\ UserIdle

\* kn_actions.plot with the second text
ParseSpaced ==
  /\ pc = "parsed"
  /\ tree2' = kn_parse(str2)
  /\ pc' = "spaced"
  /\ UNCHANGED <<str, src, tree, out, str2>>
  /\ UNCHANGED editor_vars
  /\ UNCHANGED user_vars

NextSpace == Parse \/ ParseSpaced

SpaceSpec == InitSpace /\ [][NextSpace]_vars

----------------------------------------------------------------------------
(* Reading a graph *)

Root == node[Len(node)]
PreRoot == pre.node[Len(pre.node)]
PreSize == Len(pre.parent)

Elems(a) == {a[k] : k \in 1..Len(a)}

\* the nodes reached from the set S through at most k child links
RECURSIVE Below(_, _, _)
Below(ch, S, k) ==
  IF k = 0 THEN S
  ELSE TheOne({Below(ch, S2, k2) :
                 S2 \in {S \cup UNION {Elems(ch[n]) : n \in S}}, k2 \in {k - 1}})

Reach(ch, r) == Below(ch, {r}, Len(ch))

\* the node reached from n by k parent links, 0 past a node without parent
RECURSIVE Up(_, _, _)
Up(par, n, k) ==
  IF k = 0 \/ n = 0 THEN n
  ELSE TheOne({Up(par, m, k2) : m \in {par[n]}, k2 \in {k - 1}})

Occurrences(a, x) == Cardinality({k \in 1..Len(a) : a[k] = x})

\* the pointer graph under r is a tree
ValidTree(par, ch, r) ==
  \E T \in {Reach(ch, r)} :
  /\ par[r] = 0
  /\ \A m \in T : Occurrences(ch[m], r) = 0
  /\ \A n \in T \ {r} :
       /\ par[n] \in T
       /\ Occurrences(ch[par[n]], n) = 1
       /\ \A m \in T \ {par[n]} : Occurrences(ch[m], n) = 0
  /\ \A n \in T : Up(par, n, Cardinality(T)) = 0

\* a topology call has acted on the tree and returned
Acted(op) == last.op = op /\ last.st = "ret"

\* parent, child and d of the nodes that existed before the last call are as they were
Untouched ==
  \A n \in 1..PreSize :
    parent[n] = pre.parent[n] /\ child[n] = pre.child[n] /\ d[n] = pre.d[n]

----------------------------------------------------------------------------
(* Claims *)

\* C1: after any sequence of completed prune, regraft, reroot, multifurcate
\* and reorder calls, each followed by a flatten from the returned root, the
\* pointer graph is a valid tree: the root has no parent, every other
\* reachable node has exactly one parent and occurs exactly once in that
\* parent's children, and no node is its own ancestor.
C1_ValidTree == clean => ValidTree(parent, child, Root)

\* reached: two calls that changed the graph, a regraft among them, all completed
C1_Witness ==
  /\ clean
  /\ nops >= 2
  /\ "regraft" \in done
  /\ Cardinality(done \cap {"prune", "reroot", "multifurcate", "reorder"}) >= 1

\* C2: a call of prune, regraft, reroot or multifurcate either completes or
\* leaves every node's parent, children and branch length as they were.
C2_AllOrNothing ==
  (last.op \in {"prune", "regraft", "reroot", "multifurcate"} /\ last.st = "threw")
    => Untouched

\* a topology call of the editor was made on node last.a (and last.b)
Called(op) == last.op = op

\* p is q or an ancestor of q in the tree before the call: the nodes the walk
\* from q up to the root meets
PreOnPathUp(p, q) == \E k \in 0..PreSize : Up(pre.parent, q, k) = p

\* the nodes created by the last call
Created == (PreSize + 1)..Len(parent)

\* the other child of a node with two children
Other(kids, n) == IF kids[1] = n THEN kids[2] ELSE kids[1]

\* C3: regraft(tree, p, q) fails, changing nothing, exactly when p is the root
\* or p is an ancestor of q; in every other case it succeeds and p and q are
\* the two children of one new node that takes q's former place under q's
\* former parent (when q is p's sibling under a parent that the prune splices
\* out, the place q holds once p is pruned: that of the spliced parent).
C3_Regraft ==
  Called("regraft") =>
    LET p == last.a
        q == last.b
        spliced == pre.parent[p] = pre.parent[q] /\ Len(pre.child[pre.parent[p]]) = 2
        place == IF spliced THEN pre.parent[q] ELSE q
    IN IF p = PreRoot \/ PreOnPathUp(p, q)
       THEN last.st = "ret" /\ last.ret = 0 /\ Untouched
       ELSE /\ last.st = "ret"
            /\ last.ret # 0
            /\ \E s \in Created :
                 /\ Len(child[s]) = 2
                 /\ Elems(child[s]) = {p, q}
                 /\ parent[p] = s
                 /\ parent[q] = s
                 /\ parent[s] = pre.parent[place]
                 /\ IF pre.parent[place] = 0 THEN Root = s
                    ELSE IndexOf(child[pre.parent[place]], s)
                           = IndexOf(pre.child[pre.parent[place]], place)

\* C4: prune(node), node not the root and its parent not having exactly two
\* children, removes exactly node from the parent's children, keeps the other
\* siblings in order, changes no other parent or children, and returns the root.
C4_PruneSimple ==
  (Called("prune") /\ last.a # PreRoot /\ Len(pre.child[pre.parent[last.a]]) # 2) =>
    LET P == pre.parent[last.a] IN
    /\ last.st = "ret"
    /\ last.ret = PreRoot
    /\ child[P] = DropAt(pre.child[P], IndexOf(pre.child[P], last.a))
    /\ \A n \in (1..PreSize) \ {P} : child[n] = pre.child[n]
    /\ \A n \in (1..PreSize) \ {last.a} : parent[n] = pre.parent[n]

\* C5: prune(node) under a parent P with exactly two children splices P out:
\* the sibling takes P's place under the grandparent (or becomes the root),
\* its parent is the grandparent, and its branch length is sibling + P when
\* both are specified and unspecified (negative) when either is not.
C5_PruneSplice ==
  (Called("prune") /\ last.a # PreRoot /\ Len(pre.child[pre.parent[last.a]]) = 2) =>
    LET P   == pre.parent[last.a]
        sib == Other(pre.child[P], last.a)
        gp  == pre.parent[P]
    IN /\ last.st = "ret"
       /\ parent[sib] = gp
       /\ IF gp = 0 THEN last.ret = sib /\ Root = sib
          ELSE /\ last.ret = PreRoot
               /\ child[gp] = [pre.child[gp] EXCEPT ![IndexOf(pre.child[gp], P)] = sib]
       /\ IF pre.d[sib] >= 0 /\ pre.d[P] >= 0
          THEN d[sib] = pre.d[sib] + pre.d[P]
          ELSE d[sib] < 0

\* C6: reroot(root, node, distance), node not the root, returns a new root
\* without parent and with exactly two children: first node, with length
\* distance (half of node's old length when distance is negative or exceeds
\* it); second node's old parent with length old length - that length, or
\* node's former sibling when the old parent was the old root with exactly two
\* children.  With node the root it returns root and changes nothing.
C6_Reroot ==
  Called("reroot") =>
    LET nd == last.a
        P  == pre.parent[nd]
        nr == last.ret
    IN IF nd = PreRoot
       THEN last.st = "ret" /\ nr = PreRoot /\ Untouched /\ Created = {}
       ELSE /\ last.st = "ret"
            /\ nr \in Created
            /\ parent[nr] = 0
            /\ Len(child[nr]) = 2
            /\ child[nr][1] = nd
            /\ IF last.dist < 0 \/ last.dist > pre.d[nd]
               THEN 2 * d[nd] = pre.d[nd]
               ELSE d[nd] = last.dist
            /\ IF P = PreRoot /\ Len(pre.child[P]) = 2
               THEN child[nr][2] = Other(pre.child[P], nd)
               ELSE child[nr][2] = P /\ d[P] = pre.d[nd] - d[nd]

\* reached: a reroot at a node below the root's children with a distance
\* that exceeds the node's specified length
C6_Witness ==
  /\ Acted("reroot")
  /\ last.a # PreRoot
  /\ pre.parent[last.a] # PreRoot
  /\ pre.d[last.a] >= 0
  /\ last.dist > pre.d[last.a]

\* the child of the old root on the path down to the node rerooted at
PrePathChild ==
  CHOOSE c \in Elems(pre.child[PreRoot]) : PreOnPathUp(c, last.a)

\* C7: in reroot, an old root with exactly two children is removed and its
\* other child attached in its place with length the sum of the two lengths
\* when both are specified and unspecified otherwise; an old root with another
\* number of children stays, having lost exactly the child on the path.
C7_OldRoot ==
  (Called("reroot") /\ last.a # PreRoot) =>
    LET c0   == PrePathChild
        rot  == IF c0 = last.a THEN pre.d[last.a] - d[last.a] ELSE pre.d[c0]
        host == IF c0 = last.a THEN last.ret ELSE c0
    IN /\ last.st = "ret"
       /\ IF Len(pre.child[PreRoot]) = 2
          THEN LET r == Other(pre.child[PreRoot], c0) IN
               /\ PreRoot \notin Reach(child, Root)
               /\ parent[r] = host
               /\ Occurrences(child[host], r) = 1
               /\ IF pre.d[r] >= 0 /\ rot >= 0
                  THEN d[r] = pre.d[r] + rot
                  ELSE d[r] < 0
          ELSE /\ PreRoot \in Reach(child, Root)
               /\ child[PreRoot] = DropAt(pre.child[PreRoot], IndexOf(pre.child[PreRoot], c0))

\* C8: multifurcate(p) changes nothing when p is a leaf or the root; otherwise
\* the children of p's parent P are the old ones with p replaced in place by
\* p's children in their order, and every child of p has parent P.
C8_Multifurcate ==
  Called("multifurcate") =>
    LET p == last.a
        P == pre.parent[p]
    IN /\ last.st = "ret"
       /\ IF pre.child[p] = <<>> \/ p = PreRoot
          THEN Untouched /\ Created = {}
          ELSE LET idx == IndexOf(pre.child[P], p) IN
               /\ child[P] = SubSeq(pre.child[P], 1, idx - 1) \o pre.child[p]
                               \o SubSeq(pre.child[P], idx + 1, Len(pre.child[P]))
               /\ Len(child[P]) = Len(pre.child[P]) + Len(pre.child[p]) - 1
               /\ \A c \in Elems(pre.child[p]) : parent[c] = P

\* reached: a node with two or more children, between two siblings, was contracted
C8_Witness ==
  /\ Acted("multifurcate")
  /\ last.a # PreRoot
  /\ Len(pre.child[last.a]) >= 2
  /\ LET kids == pre.child[pre.parent[last.a]]
     IN IndexOf(kids, last.a) > 1 /\ IndexOf(kids, last.a) < Len(kids)

\* C9: in multifurcate(p) each promoted child's length becomes child + p's
\* length when both are specified and is unchanged when either is not; no
\* other node's length changes.
C9_MultifurcateLengths ==
  (Called("multifurcate") /\ pre.child[last.a] # <<>> /\ last.a # PreRoot) =>
    \A n \in 1..PreSize :
      d[n] = IF n \in Elems(pre.child[last.a]) /\ pre.d[n] >= 0 /\ pre.d[last.a] >= 0
             THEN pre.d[n] + pre.d[last.a]
             ELSE pre.d[n]

\* reached: a contracted node with a specified length, one child with and one
\* without a length
C9_Witness ==
  /\ Acted("multifurcate")
  /\ last.a # PreRoot
  /\ pre.d[last.a] >= 0
  /\ \E c1, c2 \in Elems(pre.child[last.a]) : pre.d[c1] < 0 /\ pre.d[c2] > 0

\* C10 as stated: after a successful regraft(tree, p, q) where q had the
\* specified length L before the call, the splice node and q each have L/2
\* and p keeps its length, for every admissible pair.
C10_Original ==
  (Acted("regraft") /\ last.ret # 0 /\ pre.d[last.b] >= 0) =>
    /\ 2 * d[parent[last.b]] = pre.d[last.b]
    /\ 2 * d[last.b] = pre.d[last.b]
    /\ d[last.a] = pre.d[last.a]

\* C10, amended: the same for every admissible pair in which q is not p's sibling.
C10_Halved ==
  (Acted("regraft") /\ last.ret # 0 /\ pre.d[last.b] >= 0
     /\ pre.parent[last.a] # pre.parent[last.b]) =>
    /\ parent[last.b] \in Created
    /\ 2 * d[parent[last.b]] = pre.d[last.b]
    /\ 2 * d[last.b] = pre.d[last.b]
    /\ d[last.a] = pre.d[last.a]

\* reached: a successful regraft onto the edge above a node that is not p's
\* sibling and has a positive length
C10_Witness ==
  /\ Acted("regraft")
  /\ last.ret # 0
  /\ pre.d[last.b] > 0
  /\ pre.parent[last.a] # pre.parent[last.b]

----------------------------------------------------------------------------
(* Flattener and view *)

\* the nodes reached from r without going below a hidden node
RECURSIVE Shown(_, _, _, _)
Shown(ch, hid, S, k) ==
  IF k = 0 THEN S
  ELSE TheOne({Shown(ch, hid, S2, k2) :
                 S2 \in {S \cup UNION {Elems(ch[n]) : n \in {m \in S : ~hid[m]}}},
                 k2 \in {k - 1}})

\* the place of x in the sequence a
Place(a, x) == IndexOf(a, x)

\* C11: the flattened sequence holds exactly the nodes reachable from the root
\* without descending below a collapsed node, each once; every listed node
\* that is not collapsed comes after all of its children, which are listed
\* in left-to-right order; the root is last; a collapse call changes no
\* parent or children link.
C11_Flatten ==
  clean =>
    /\ Elems(node) = Shown(child, hidden, {Root}, Len(child))
    /\ Len(node) = Cardinality(Elems(node))
    /\ node[Len(node)] = Root
    /\ \A n \in Elems(node) :
         ~hidden[n] =>
           /\ \A k \in 1..Len(child[n]) : Place(node, child[n][k]) < Place(node, n)
           /\ \A j, k \in 1..Len(child[n]) :
                j < k => Place(node, child[n][j]) < Place(node, child[n][k])
    /\ Acted("collapse") => Untouched

\* reached: a flatten of a tree in which a collapsed node hides descendants
\* and a node that is not collapsed has two listed children
C11_Witness ==
  /\ clean
  /\ Acted("collapse")
  /\ \E n \in Elems(node) : hidden[n] /\ child[n] # <<>>
  /\ \E n \in Elems(node) : ~hidden[n] /\ Len(child[n]) >= 2
  /\ Len(node) < Cardinality(Reach(child, Root))

\* the number of leaves in the subtree under n of the tree before the last call
PreLeavesUnder(n) == Cardinality({m \in Reach(pre.child, n) : pre.child[m] = <<>>})

\* C16: prune(tree, node) followed by flatten and count_tips gives a tip
\* count lower than the count before the call by exactly the number of leaves
\* in node's subtree, and an unchanged count when node is the root.
C16_PruneTips ==
  Called("prune") =>
    IF last.a = PreRoot THEN tree_n_tips = pre.tips
    ELSE last.st = "ret" /\ tree_n_tips = pre.tips - PreLeavesUnder(last.a)

C18_Search ==
  Acted("search") =>
    \A n \in Reach(child, Root) :
      IF child[n] = <<>>
      THEN hl[n] = (name[n] \in Patterns[last.a])
      ELSE hl[n] = pre.hl[n]

\* the number of parent links from n up to r
RECURSIVE DepthBelow(_, _)
DepthBelow(r, n) ==
  IF n = r \/ parent[n] = 0 THEN 0
  ELSE TheOne({DepthBelow(r, m) : m \in {parent[n]}}) + 1

\* the leaves of the subtree under n
LeavesUnder(n) == {m \in Reach(child, n) : child[m] = <<>>}

\* the rank of leaf l among the leaves under r: deeper first, then by name
LeafRank(r, l) ==
  Cardinality({m \in LeavesUnder(r) :
                 \/ DepthBelow(r, m) > DepthBelow(r, l)
                 \/ DepthBelow(r, m) = DepthBelow(r, l) /\ name[m] < name[l]})

\* tip count and weight of n in the subtree under r: sums over the leaves under n
TipCount(n) == Cardinality(LeavesUnder(n))

RECURSIVE SumRanks(_, _)
SumRanks(r, L) ==
  IF L = {} THEN 0
  ELSE TheOne({LeafRank(r, l) + SumRanks(r, L \ {l}) : l \in {CHOOSE x \in L : TRUE}})

Weight(r, n) == SumRanks(r, LeavesUnder(n))

\* C19: after reorder(root), for every internal node in the subtree under
\* root, weight / tip_count of its children does not decrease from left to
\* right, where a leaf has tip_count 1 and weight its rank among the leaves
\* and an internal node has the sums over its children; also when a node
\* under root is collapsed.
C19_Reorder ==
  Acted("reorder") =>
    \A n \in Reach(child, last.a) :
      \A k \in 1..(Len(child[n]) - 1) :
        Weight(last.a, child[n][k]) * TipCount(child[n][k + 1])
          <= Weight(last.a, child[n][k + 1]) * TipCount(child[n][k])

\* C20: reorder(root) changes only the order of children lists and the
\* fields weight and tip_count: every node keeps its parent, the set (and
\* number) of its children, its name, branch length, highlighted and
\* collapsed values, and no node outside the subtree under root has its
\* children order changed.
C20_ReorderFrame ==
  Acted("reorder") =>
    /\ parent = pre.parent
    /\ d = pre.d
    /\ name = pre.name
    /\ hl = pre.hl
    /\ hidden = pre.hidden
    /\ \A n \in 1..Len(child) :
         /\ Len(child[n]) = Len(pre.child[n])
         /\ Elems(child[n]) = Elems(pre.child[n])
         /\ n \notin Reach(pre.child, last.a) => child[n] = pre.child[n]

\* reached: a reorder under a node that is not the root changed the order of
\* a children list
C20_Witness ==
  /\ Acted("reorder")
  /\ last.a # Root
  /\ child # pre.child

----------------------------------------------------------------------------
(* Parser and writer *)

\* a text written from a shape has gone through parse, write and parse
WroteShape == src # NoShape /\ pc = "reparsed"

\* C12: round trip: for a well-formed text, the tree parsed from the text
\* written from the parsed tree has the same parent and ordered children,
\* the same branch length and the same metadata on every node as the parsed
\* tree; the write itself succeeds.
C12_RoundTrip ==
  /\ (src # NoShape /\ pc = "written") => out.st = "ret"
  /\ WroteShape =>
       /\ tree2.parent = tree.parent
       /\ tree2.child = tree.child
       /\ tree2.d = tree.d
       /\ tree2.meta = tree.meta
       /\ tree2.root = tree.root

\* reached: a round trip of a tree with a group inside a group, a node with a
\* length, a node with metadata and a leaf with neither
C12_Witness ==
  /\ WroteShape
  /\ \E n \in 1..Len(tree.parent) : tree.parent[n] # 0 /\ tree.parent[tree.parent[n]] # 0
  /\ \E n \in 1..Len(tree.parent) : tree.d[n] >= 10 * Unit
  /\ \E n \in 1..Len(tree.parent) : tree.meta[n] # <<>>
  /\ \E n \in 1..Len(tree.parent) :
       tree.child[n] = <<>> /\ tree.d[n] = NoD /\ tree.meta[n] = <<>>

\* the scenario of C13: (A:1,B:2); gives two tips and a root with children
\* A and B of lengths 1 and 2
C13_Scenario ==
  (pc = "parsed" /\ str = <<"(", "A", ":", "1", ",", "B", ":", "2", ")", ";">>) =>
    /\ tree.error = 0
    /\ tree.n_tips = 2
    /\ tree.child[tree.root] = <<1, 2>>
    /\ tree.name[1] = <<"A">> /\ tree.name[2] = <<"B">>
    /\ tree.d[1] = Unit /\ tree.d[2] = 2 * Unit

\* a text written from a shape has been parsed
ParsedShape == src # NoShape /\ pc # "text"

\* C13: for a well-formed text, parse returns error 0 and a root that is the
\* last node of the sequence; every group is one internal node whose children
\* are the members of the group from left to right, each with that node as
\* parent; the tip count is the number of leaves, and the nodes carry the
\* lengths and metadata of the text and (but for the root, which takes the
\* terminator) its names.
C13_ParseWellFormed ==
  /\ C13_Scenario
  /\ ParsedShape =>
    /\ tree.error = 0
    /\ tree.root = Len(tree.parent)
    /\ tree.root = Len(src.ch)
    /\ tree.child = src.ch
    /\ \A n \in 1..Len(src.ch) :
         /\ \A k \in 1..Len(src.ch[n]) : tree.parent[src.ch[n][k]] = n
         /\ tree.d[n] = src.tok[n].d
         /\ tree.meta[n] = src.tok[n].meta
         /\ n # tree.root => tree.name[n] = src.tok[n].name
    /\ tree.parent[tree.root] = 0
    /\ tree.n_tips = Cardinality({n \in 1..Len(src.ch) : src.ch[n] = <<>>})

\* reached: the parse of a text with a group of three members and of a text
\* with a group inside a group, ended by a terminator
C13_Witness ==
  /\ ParsedShape
  /\ pc = "parsed"
  /\ \E n \in 1..Len(tree.child) : Len(tree.child[n]) = 2 /\ tree.parent[n] # 0
  /\ tree.n_tips = 3
  /\ tree.name[tree.root] = <<";">>

\* C14: for every text, faulty ones included, parse returns a usable tree: the
\* node sequence is not empty when a node token was consumed, its last node
\* is the root, and every other node has a parent in the sequence that lists
\* it as a child.
C14_BestEffort ==
  pc # "text" =>
    /\ tree.n_tips > 0 => Len(tree.parent) > 0
    /\ tree.root = Len(tree.parent)
    /\ \A n \in 1..Len(tree.parent) :
         n # tree.root =>
           /\ tree.parent[n] # 0
           /\ \E k \in 1..Len(tree.child[tree.parent[n]]) : tree.child[tree.parent[n]][k] = n

\* the error bits as the text itself gives them: read from place i with
\* `open` brackets '(' not yet closed; a '[' runs to its ']'; a ')' with no
\* open '(' gives bit 1 and ends the reading; the end of the text gives bit 2
\* when a '(' is open, and bit 4 as well when it falls inside a '['
RECURSIVE TextBits(_, _, _)
TextBits(s, i, open) ==
  IF i >= Len(s) THEN (IF open > 0 THEN 2 ELSE 0)
  ELSE IF charAt(s, i) = "["
    THEN TheOne({IF e = Len(s) THEN 4 + (IF open > 0 THEN 2 ELSE 0)
                 ELSE TextBits(s, e + 1, open) : e \in {scan_meta(s, i + 1)}})
  ELSE IF charAt(s, i) = "(" THEN TheOne({TextBits(s, i2, o2) : i2 \in {i + 1}, o2 \in {open + 1}})
  ELSE IF charAt(s, i) = ")"
    THEN (IF open = 0 THEN 1
          ELSE TheOne({TextBits(s, i2, o2) : i2 \in {i + 1}, o2 \in {open - 1}}))
  ELSE TheOne({TextBits(s, i2, open) : i2 \in {i + 1}})

\* C15: the error bits are set independently: bit 1 exactly when a ')' is met
\* with no unmatched '(' before it, bit 2 exactly when the text ends with a
\* '(' still open, bit 4 exactly when a '[' is open at the end of the text.
C15_ErrorBits ==
  pc # "text" => tree.error = TextBits(str, 0, 0)

\* C21: parsing is insensitive to white space outside brackets: a text and
\* the text with a blank, tab or newline put in anywhere outside a metadata
\* block parse to trees with the same topology, names, branch lengths and
\* metadata.
C21_Whitespace ==
  pc = "spaced" =>
    /\ tree2.parent = tree.parent
    /\ tree2.child = tree.child
    /\ tree2.name = tree.name
    /\ tree2.d = tree.d
    /\ tree2.meta = tree.meta

\* C22: in every node sequence the flattener produces, for the trees reached
\* by edits and collapse toggles, the depth of a node (edges to the root) is
\* at most one more than the depth of the node after it, so one closing
\* bracket per decrease of depth closes the right number of groups.
C22_FlattenDepth ==
  clean =>
    \A i \in 1..(Len(node) - 1) :
      DepthBelow(Root, node[i]) <= DepthBelow(Root, node[i + 1]) + 1

\* reached: after an edit with a node collapsed, a node at depth two or more
\* is followed by its parent
C22_Witness ==
  /\ clean
  /\ nops = MaxOps
  /\ "collapse" \in done
  /\ last.op \notin {"none", "collapse"}
  /\ \E i \in 1..(Len(node) - 1) :
       /\ DepthBelow(Root, node[i]) >= 2
       /\ parent[node[i]] = node[i + 1]

\* the sum of dd over the nodes of S
RECURSIVE SumOver(_, _)
SumOver(dd, S) ==
  IF S = {} THEN 0
  ELSE TheOne({dd[x] + SumOver(dd, S \ {x}) : x \in {CHOOSE y \in S : TRUE}})

\* the nodes under the old root before the call, the root left out
PreBelowRoot == Reach(pre.child, PreRoot) \ {PreRoot}

\* C24: reroot keeps the content of the tree: for a root with at least two
\* children and a node that is not the root, the set of leaves after the call
\* is the set before, and when every non-root node had a specified branch
\* length the sum of the branch lengths of the non-root nodes is as before.
C24_RerootContent ==
  (Called("reroot") /\ last.a # PreRoot /\ Len(pre.child[PreRoot]) >= 2) =>
    /\ last.st = "ret"
    /\ {n \in Reach(child, last.ret) : child[n] = <<>>}
         = {n \in Reach(pre.child, PreRoot) : pre.child[n] = <<>>}
    /\ (\A n \in PreBelowRoot : pre.d[n] >= 0) =>
         /\ \A n \in Reach(child, last.ret) \ {last.ret} : d[n] >= 0
         /\ SumOver(d, Reach(child, last.ret) \ {last.ret}) = SumOver(pre.d, PreBelowRoot)

\* reached: a reroot at a node two or more levels under an old root with
\* exactly two children, every length specified and not all of them zero
C24_Witness ==
  /\ Acted("reroot")
  /\ last.a # PreRoot
  /\ Len(pre.child[PreRoot]) = 2
  /\ pre.parent[last.a] # PreRoot
  /\ \A n \in PreBelowRoot : pre.d[n] >= 0
  /\ SumOver(pre.d, PreBelowRoot) > 0

\* the subtree under n as nested tuples: the length of n (every negative
\* length is the unspecified length) and its children from left to right
RECURSIVE Canon(_, _, _)
Canon(ch, dd, n) ==
  <<IF dd[n] < 0 THEN NoLen ELSE dd[n], [k \in 1..Len(ch[n]) |-> Canon(ch, dd, ch[n][k])]>>

\* C23: after every completed user action (swap, sort, reroot, collapse,
\* remove, multifurcate, move), in any order and on any node on show, a
\* collapsed one included, tree.n_tips is the number of nodes of the node
\* sequence that have no children or are collapsed.
C23_TipCount ==
  (clean /\ pc = "edit") =>
    tree_n_tips = Cardinality({i \in 1..Len(node) : child[node[i]] = <<>> \/ hidden[node[i]]})

\* C25: after an edit that wrote the text, collapse toggles before it or
\* not, two calls of undo_redo give a tree with the topology and branch
\* lengths of the whole tree as the edit left it, the nodes under a collapsed
\* node included.
C25_UndoRedo ==
  pc = "redone" =>
    /\ clean
    /\ Canon(child, d, node[Len(node)]) = Canon(kept.child, kept.d, kept.root)

====
